---- MODULE Spec2Model ----
(***************************************************************************)
(* A model of the Profile Assistant plugin: the rule predicates             *)
(* (Configuration.check), the rule action (Configuration.do), the mod-list  *)
(* editor (Profile.modify_modlist_file), the profile pointer                *)
(* (Profile.change_profile / current_profile) and the orchestrator loop     *)
(* (ProfileAssistant.set_configuration).                                    *)
(*                                                                          *)
(* Texts are sequences of one-character strings, so that strip(), slicing   *)
(* and replace() are computed as the code computes them.  An Optional[T]    *)
(* is <<>> for None and <<v>> for a value v.                                *)
(***************************************************************************)
EXTENDS Integers, Sequences, FiniteSets, TLC

VARIABLES
    configurations,    \* ProfileAssistant.configurations: the loaded rules
    mod_lists,         \* ProfileAssistant.mod_lists: group name -> mod names
    vram,              \* ProfileAssistant.vram (GPU.vram)
    aspect_ratio,      \* ProfileAssistant.aspect_ratio (GPU.screen_aspect_ratio)
    system_language,   \* ProfileAssistant.system_language
    profiles,          \* the list returned by Profile.get_profiles()
    selected_profile,  \* General/selected_profile of the host ini ("" when unset)
    modlist,           \* directory under Profile.directory -> its modlist.txt
    pc,                \* where the running operation stands
    idx,               \* index of the rule the loop of set_configuration is at
    enabled,           \* local enabled of the latest do / argument of the editor
    disabled,          \* local filtered_disabled of the latest do / argument
    calls,             \* the calls of Profile.modify_modlist_file so far
    trace,             \* what the run did so far, one record per rule visited
    result,            \* value returned by the operation under test
    config_ini,        \* the plugin's rule file (config.ini); <<>> while not read
    args               \* arguments of the operation under test; <<>> if none

vars == <<configurations, mod_lists, vram, aspect_ratio, system_language,
          profiles, selected_profile, modlist, pc, idx, enabled, disabled, calls,
          trace, result, config_ini, args>>

----------------------------------------------------------------------------
(* Optional values *)

None == <<>>

Some(v) == <<v>>

IsNone(o) == o = <<>>

Val(o) == o[1]

----------------------------------------------------------------------------
(* Sequences and texts *)

Range(s) == {s[i] : i \in 1..Len(s)}

RECURSIVE Concat(_)
Concat(ss) == IF ss = <<>> THEN <<>> ELSE Head(ss) \o Concat(Tail(ss))

SeqsUpTo(S, n) == UNION {[1..k -> S] : k \in 0..n}

Whitespace == {" ", "\t", "\n", "\r"}

RECURSIVE LStrip(_)
LStrip(s) ==
    IF s # <<>> /\ Head(s) \in Whitespace THEN LStrip(Tail(s)) ELSE s

RECURSIVE RStrip(_)
RStrip(s) ==
    IF s # <<>> /\ s[Len(s)] \in Whitespace
    THEN RStrip(SubSeq(s, 1, Len(s) - 1))
    ELSE s

Strip(s) == RStrip(LStrip(s))

----------------------------------------------------------------------------
(* Decimal texts: int(str) and f"{n}" *)

Digits == <<"0", "1", "2", "3", "4", "5", "6", "7", "8", "9">>

DigitVal(c) == CHOOSE d \in 0..9 : Digits[d + 1] = c

AllDigits(s) == s # <<>> /\ \A i \in 1..Len(s) : s[i] \in Range(Digits)

RECURSIVE DigitsVal(_)
DigitsVal(s) ==
    IF s = <<>> THEN 0
    ELSE 10 * DigitsVal(SubSeq(s, 1, Len(s) - 1)) + DigitVal(s[Len(s)])

\* int(s) succeeds: surrounding whitespace, an optional sign, then digits
IsInt(s) ==
    LET t == Strip(s)
    IN  /\ t # <<>>
        /\ IF Head(t) \in {"+", "-"} THEN AllDigits(Tail(t)) ELSE AllDigits(t)

IntVal(s) ==
    LET t == Strip(s)
    IN  IF Head(t) = "-" THEN 0 - DigitsVal(Tail(t))
        ELSE IF Head(t) = "+" THEN DigitsVal(Tail(t))
        ELSE DigitsVal(t)

RECURSIVE NatStr(_)
NatStr(n) ==
    IF n < 10 THEN <<Digits[n + 1]>>
    ELSE NatStr(n \div 10) \o <<Digits[(n % 10) + 1]>>

IntStr(n) == IF n < 0 THEN <<"-">> \o NatStr(0 - n) ELSE NatStr(n)

\* s.split(sep) for a one-character separator
RECURSIVE Split(_, _)
Split(s, sep) ==
    IF \A i \in 1..Len(s) : s[i] # sep THEN <<s>>
    ELSE LET k == CHOOSE i \in 1..Len(s) :
                      s[i] = sep /\ \A j \in 1..(i - 1) : s[j] # sep
         IN  <<SubSeq(s, 1, k - 1)>> \o Split(SubSeq(s, k + 1, Len(s)), sep)

----------------------------------------------------------------------------
(* AspectRatio (base/aspect_ratio.py) and the screen ratio (base/gpu.py) *)

Abs(n) == IF n < 0 THEN 0 - n ELSE n

RECURSIVE GcdNat(_, _)
GcdNat(a, b) == IF b = 0 THEN a ELSE GcdNat(b, a % b)

\* math.gcd: the non-negative greatest common divisor
Gcd(a, b) == GcdNat(Abs(a), Abs(b))

\* AspectRatio.__init__ raises ValueError
AspectRatioRaises(x, y) == x = 0 \/ y = 0

\* the object built without dividing by the greatest common divisor
AspectRatioUnreduced(x, y) == [x |-> x, y |-> y]

\* AspectRatio.__init__: the object built from non-zero x, y
AspectRatio(x, y) ==
    LET gcd_self == Gcd(x, y)
    IN  [x |-> x \div gcd_self, y |-> y \div gcd_self]

\* the "x_str, y_str = s.split(':'); int(x_str), int(y_str)" of is_equal and
\* from_string raises ValueError
RatioParseFails(ratio_str) ==
    LET parts == Split(ratio_str, ":")
    IN  Len(parts) # 2 \/ ~IsInt(parts[1]) \/ ~IsInt(parts[2])

RatioX(ratio_str) == IntVal(Split(ratio_str, ":")[1])

RatioY(ratio_str) == IntVal(Split(ratio_str, ":")[2])

\* AspectRatio.is_equal raises (ValueError, or ZeroDivisionError for "0:0")
IsEqualRaises(self, ratio_str) ==
    \/ RatioParseFails(ratio_str)
    \/ Gcd(RatioX(ratio_str), RatioY(ratio_str)) = 0

\* the comparison made without simplifying the ratio of the text
IsEqualUnsimplified(self, ratio_str) ==
    self.x = RatioX(ratio_str) /\ self.y = RatioY(ratio_str)

\* AspectRatio.is_equal, where it returns
IsEqual(self, ratio_str) ==
    LET x_ratio == RatioX(ratio_str)
        y_ratio == RatioY(ratio_str)
        gcd_ratio == Gcd(x_ratio, y_ratio)
        simplified_ratio_x == x_ratio \div gcd_ratio
        simplified_ratio_y == y_ratio \div gcd_ratio
    IN  self.x = simplified_ratio_x /\ self.y = simplified_ratio_y

\* AspectRatio.__str__
AspectRatioStr(self) == IntStr(self.x) \o <<":">> \o IntStr(self.y)

\* GPU.calculate_screen_ratio for a screen of width x height pixels
CalculateScreenRatio(width, height) ==
    LET gcd == Gcd(width, height)
        x == width \div gcd
        y == height \div gcd
    IN  IF y = 5 THEN IntStr(x * 2) \o <<":">> \o IntStr(y * 2)
        ELSE IntStr(x) \o <<":">> \o IntStr(y)

----------------------------------------------------------------------------
(* Configuration (base/configuration.py): the rule and its predicates *)

\* Configuration.__init__
Configuration(name, profile, enable_mods, disable_mods, min_vram, max_vram, ratio, language) ==
    [name |-> name, profile |-> profile, enable_mods |-> enable_mods,
     disable_mods |-> disable_mods, min_vram |-> min_vram,
     max_vram |-> max_vram, aspect_ratio |-> ratio,
     system_language |-> language]

CheckAspectRatio(self, ratio_str) ==
    IF IsNone(self.aspect_ratio) THEN TRUE
    ELSE IsEqual(Val(self.aspect_ratio), ratio_str)

\* check_vram written with truthiness tests: a bound of 0 counts as absent
CheckVramTruthy(self, v) ==
    LET no_min == IsNone(self.min_vram) \/ Val(self.min_vram) = 0
        no_max == IsNone(self.max_vram) \/ Val(self.max_vram) = 0
    IN  IF no_min /\ no_max THEN TRUE
        ELSE IF no_max THEN Val(self.min_vram) <= v
        ELSE IF no_min THEN Val(self.max_vram) > v
        ELSE Val(self.max_vram) > v /\ v >= Val(self.min_vram)

\* check_vram with the upper bound included
CheckVramClosed(self, v) ==
    IF IsNone(self.min_vram) /\ IsNone(self.max_vram) THEN TRUE
    ELSE IF IsNone(self.max_vram) THEN Val(self.min_vram) <= v
    ELSE IF IsNone(self.min_vram) THEN Val(self.max_vram) >= v
    ELSE Val(self.max_vram) >= v /\ v >= Val(self.min_vram)

CheckVram(self, v) ==
    IF IsNone(self.min_vram) /\ IsNone(self.max_vram) THEN TRUE
    ELSE IF IsNone(self.max_vram) THEN Val(self.min_vram) <= v
    ELSE IF IsNone(self.min_vram) THEN Val(self.max_vram) > v
    ELSE Val(self.max_vram) > v /\ v >= Val(self.min_vram)

LowerCase(c) == IF c = "E" THEN "e" ELSE IF c = "N" THEN "n" ELSE c

Lower(s) == [i \in DOMAIN s |-> LowerCase(s[i])]

\* check_system_language comparing case-insensitively
CheckSystemLanguageFolded(self, language) ==
    IF IsNone(self.system_language) THEN TRUE
    ELSE Lower(Val(self.system_language)) = Lower(language)

CheckSystemLanguage(self, language) ==
    IF IsNone(self.system_language) THEN TRUE
    ELSE Val(self.system_language) = language

Check(self, v, ratio_str, language) ==
    /\ CheckAspectRatio(self, ratio_str)
    /\ CheckVram(self, v)
    /\ CheckSystemLanguage(self, language)

----------------------------------------------------------------------------
(* Profile (base/profile.py): the active-profile pointer and the editor *)

ByteArrayOpen == <<"@", "B", "y", "t", "e", "A", "r", "r", "a", "y", "(">>

StartsWith(s, old) == Len(s) >= Len(old) /\ SubSeq(s, 1, Len(old)) = old

\* s.replace(old, ""): every non-overlapping occurrence, left to right
RECURSIVE Remove(_, _)
Remove(s, old) ==
    IF s = <<>> THEN <<>>
    ELSE IF StartsWith(s, old) THEN Remove(SubSeq(s, Len(old) + 1, Len(s)), old)
    ELSE <<Head(s)>> \o Remove(Tail(s), old)

\* Profile.change_profile: the value stored under General/selected_profile
ChangeProfile(name) == ByteArrayOpen \o name \o <<")">>

\* Profile.current_profile: the directory under Profile.directory the
\* pointer decodes to (the empty text is Profile.directory itself)
CurrentProfile(selected) == Remove(Remove(selected, ByteArrayOpen), <<")">>)

\* Profile.get_modlist_file: the directory whose modlist.txt is edited
GetModlistFile(selected) == CurrentProfile(selected)

\* open(filename) succeeds
FileExists(files, dir) == dir \in DOMAIN files /\ files[dir].exists

\* file.readlines(): the lines with their terminators
RECURSIVE ReadLines(_)
ReadLines(text) ==
    IF text = <<>> THEN <<>>
    ELSE IF \A i \in 1..Len(text) : text[i] # "\n" THEN <<text>>
    ELSE LET k == CHOOSE i \in 1..Len(text) :
                      text[i] = "\n" /\ \A j \in 1..(i - 1) : text[j] # "\n"
         IN  <<SubSeq(text, 1, k)>> \o ReadLines(SubSeq(text, k + 1, Len(text)))

\* the loop written with disabled tested before enabled
RECURSIVE ModifiedLinesDisableFirst(_, _, _)
ModifiedLinesDisableFirst(lines, en, di) ==
    IF lines = <<>> THEN <<>>
    ELSE LET line == Strip(Head(lines))
             rest == ModifiedLinesDisableFirst(Tail(lines), en, di)
         IN  IF Len(line) < 2 THEN rest
             ELSE LET sign == line[1]
                      name == Strip(Tail(line))
                  IN  IF name \in Range(di)
                      THEN <<<<"-">> \o name \o <<"\n">>>> \o rest
                      ELSE IF name \in Range(en)
                      THEN <<<<"+">> \o name \o <<"\n">>>> \o rest
                      ELSE <<<<sign>> \o name \o <<"\n">>>> \o rest

\* the loop written with the sign put in front of the whole stripped line
RECURSIVE ModifiedLinesWholeLine(_, _, _)
ModifiedLinesWholeLine(lines, en, di) ==
    IF lines = <<>> THEN <<>>
    ELSE LET line == Strip(Head(lines))
             rest == ModifiedLinesWholeLine(Tail(lines), en, di)
         IN  IF Len(line) < 2 THEN rest
             ELSE LET sign == line[1]
                      name == Strip(Tail(line))
                  IN  IF name \in Range(en)
                      THEN <<<<"+">> \o line \o <<"\n">>>> \o rest
                      ELSE IF name \in Range(di)
                      THEN <<<<"-">> \o line \o <<"\n">>>> \o rest
                      ELSE <<<<sign>> \o name \o <<"\n">>>> \o rest

\* the loop building the output with each kept line put before the earlier ones
RECURSIVE ModifiedLinesReversed(_, _, _)
ModifiedLinesReversed(lines, en, di) ==
    IF lines = <<>> THEN <<>>
    ELSE LET line == Strip(Head(lines))
             rest == ModifiedLinesReversed(Tail(lines), en, di)
         IN  IF Len(line) < 2 THEN rest
             ELSE LET sign == line[1]
                      name == Strip(Tail(line))
                  IN  IF name \in Range(en)
                      THEN rest \o <<<<"+">> \o name \o <<"\n">>>>
                      ELSE IF name \in Range(di)
                      THEN rest \o <<<<"-">> \o name \o <<"\n">>>>
                      ELSE rest \o <<<<sign>> \o name \o <<"\n">>>>

\* the loop of Profile.modify_modlist_file over the lines read
RECURSIVE ModifiedLines(_, _, _)
ModifiedLines(lines, en, di) ==
    IF lines = <<>> THEN <<>>
    ELSE LET line == Strip(Head(lines))
             rest == ModifiedLines(Tail(lines), en, di)
         IN  IF Len(line) < 2 THEN rest
             ELSE LET sign == line[1]
                      name == Strip(Tail(line))
                  IN  IF name \in Range(en)
                      THEN <<<<"+">> \o name \o <<"\n">>>> \o rest
                      ELSE IF name \in Range(di)
                      THEN <<<<"-">> \o name \o <<"\n">>>> \o rest
                      ELSE <<<<sign>> \o name \o <<"\n">>>> \o rest

\* Profile.modify_modlist_file: the text written for the text read
ModifyModlistFile(text, en, di) == Concat(ModifiedLines(ReadLines(text), en, di))

\* the (sign, name) entries a mod-list text lists, in file order
Entries(text) ==
    LET lines == ReadLines(text)
        stripped == [i \in DOMAIN lines |-> Strip(lines[i])]
        kept == SelectSeq(stripped, LAMBDA l : Len(l) >= 2)
    IN  [i \in DOMAIN kept |-> [sign |-> kept[i][1], name |-> Strip(Tail(kept[i]))]]

\* the signs under which a text lists the mod called name
SignsOf(text, name) ==
    LET es == Entries(text)
    IN  {es[i].sign : i \in {j \in DOMAIN es : es[j].name = name}}

----------------------------------------------------------------------------
(* Configuration.do *)

\* the loops written with "enabled = mod_lists[m]": the last group the
\* mapping has replaces what the earlier ones gave
RECURSIVE ResolveOverwriting(_, _)
ResolveOverwriting(groups, lists) ==
    IF groups = <<>> THEN <<>>
    ELSE LET later == ResolveOverwriting(Tail(groups), lists)
         IN  IF later # <<>> THEN later
             ELSE IF Head(groups) \in DOMAIN lists THEN lists[Head(groups)]
             ELSE <<>>

\* the loops leaving at the first group the mapping lacks
RECURSIVE ResolveUntilMissing(_, _)
ResolveUntilMissing(groups, lists) ==
    IF groups = <<>> THEN <<>>
    ELSE IF Head(groups) \in DOMAIN lists
    THEN lists[Head(groups)] \o ResolveUntilMissing(Tail(groups), lists)
    ELSE <<>>

\* the loops over enable_mods / disable_mods: the names of the groups the
\* mapping has, concatenated in reference order
RECURSIVE Resolve(_, _)
Resolve(groups, lists) ==
    IF groups = <<>> THEN <<>>
    ELSE IF Head(groups) \in DOMAIN lists
    THEN lists[Head(groups)] \o Resolve(Tail(groups), lists)
    ELSE Resolve(Tail(groups), lists)

\* list(set(xs)): the distinct elements of xs, in an order Python does not fix
DedupOrders(xs) ==
    LET S == Range(xs)
    IN  {p \in [1..Cardinality(S) -> S] : Range(p) = S}

\* the disabled collection passed on without the filter
Unfiltered(di, en) == di

\* [item for item in disabled if item not in enabled]
FilteredDisabled(di, en) == SelectSeq(di, LAMBDA item : item \notin Range(en))

\* the switch made without looking the profile up in profiles
SwitchedUnchecked(self, profs, selected) ==
    IF ~IsNone(self.profile) THEN ChangeProfile(Val(self.profile)) ELSE selected

\* "if self.profile is not None: if self.profile in profiles: change_profile"
SwitchedProfile(self, profs, selected) ==
    IF ~IsNone(self.profile) /\ Val(self.profile) \in Range(profs)
    THEN ChangeProfile(Val(self.profile))
    ELSE selected

\* the early return taken whenever there is nothing to enable
NothingEnabled(en, di) == en = <<>>

\* "if not enabled and not disabled: return"
NoMods(en, di) == en = <<>> /\ di = <<>>

\* Configuration.do.  An exception of the editor leaves do, and the loop of
\* set_configuration that called it, which has no handler: pc becomes
\* "raised".
Do(self, profs, lists) ==
    LET selected == SwitchedProfile(self, profs, selected_profile)
        en0 == Resolve(self.enable_mods, lists)
        di0 == Resolve(self.disable_mods, lists)
    IN  /\ selected_profile' = selected
        /\ IF NoMods(en0, di0)
           THEN /\ enabled' = en0
                /\ disabled' = di0
                /\ UNCHANGED <<modlist, calls, pc>>
           ELSE \E en \in DedupOrders(en0), di \in DedupOrders(di0) :
                  LET filtered_disabled == FilteredDisabled(di, en)
                      file == GetModlistFile(selected)
                      ok == FileExists(modlist, file)
                  IN  /\ enabled' = en
                      /\ disabled' = filtered_disabled
                      /\ calls' = Append(calls,
                             [rule |-> self, file |-> file, enabled |-> en,
                              disabled |-> filtered_disabled, ok |-> ok])
                      /\ IF ok
                         THEN /\ modlist' = [modlist EXCEPT ![file].text =
                                     ModifyModlistFile(@, en, filtered_disabled)]
                              /\ pc' = pc
                         ELSE /\ modlist' = modlist
                              /\ pc' = "raised"

----------------------------------------------------------------------------
(* Texts used by the specifications *)

en == <<"e", "n">>

EN == <<"E", "N">>

pl == <<"p", "l">>

RuleName == <<"R">>

\* AspectRatio.from_string raises: the text parses and a component is zero
FromStringRaises(ratio_opt) ==
    /\ ~IsNone(ratio_opt)
    /\ ~RatioParseFails(Val(ratio_opt))
    /\ AspectRatioRaises(RatioX(Val(ratio_opt)), RatioY(Val(ratio_opt)))

\* AspectRatio.from_string, where it returns
FromString(ratio_opt) ==
    IF IsNone(ratio_opt) THEN None
    ELSE IF RatioParseFails(Val(ratio_opt)) THEN None
    ELSE Some(AspectRatio(RatioX(Val(ratio_opt)), RatioY(Val(ratio_opt))))

----------------------------------------------------------------------------
(* SpecVram: Configuration.check_vram on one rule and one VRAM size *)

MaxVram == 13

OptVrams == {None} \cup {Some(v) : v \in 0..MaxVram}

InitVram ==
    /\ configurations \in
         {<<Configuration(RuleName, None, <<>>, <<>>, mn, mx, None, None)>> :
             mn \in OptVrams, mx \in OptVrams}
    /\ vram \in (0 - 1)..MaxVram
    /\ aspect_ratio = CalculateScreenRatio(1920, 1080)
    /\ system_language = en
    /\ mod_lists = <<>>
    /\ profiles = <<>>
    /\ selected_profile = <<>>
    /\ modlist = <<>>
    /\ pc = "call"
    /\ idx = 1
    /\ enabled = <<>>
    /\ disabled = <<>>
    /\ calls = <<>>
    /\ trace = <<>>
    /\ result = None
    /\ config_ini = <<>>
    /\ args = <<>>

CallCheckVram ==
    /\ pc = "call"
    /\ result' = Some(CheckVram(configurations[1], vram))
    /\ pc' = "returned"
    /\ UNCHANGED <<configurations, mod_lists, vram, aspect_ratio,
                   system_language, profiles, selected_profile, modlist, idx,
                   enabled, disabled, calls, trace,
                   config_ini, args>>

NextVram == CallCheckVram

SpecVram == InitVram /\ [][NextVram]_vars

----------------------------------------------------------------------------
(* SpecCheck: Configuration.check on one rule and one environment *)

CheckMaxVram == 2

CheckOptVrams == {None} \cup {Some(v) : v \in 0..CheckMaxVram}

\* AspectRatio values of rule files
RuleRatios ==
    {None} \cup
    {Some(r) : r \in {<<"1", "6", ":", "9">>, <<"1", "6", ":", "1", "0">>,
                      <<"8", ":", "5">>, <<"4", ":", "3">>}}

\* screens: (width, height) in pixels
Screens == {<<1920, 1080>>, <<1920, 1200>>, <<1280, 800>>, <<1024, 768>>}

RuleLanguages == {None, Some(en), Some(EN), Some(pl)}

Languages == {en, EN, pl, <<>>}

InitCheck ==
    /\ configurations \in
         {<<Configuration(RuleName, None, <<>>, <<>>, mn, mx, FromString(r), l)>> :
             mn \in CheckOptVrams, mx \in CheckOptVrams, r \in RuleRatios,
             l \in RuleLanguages}
    /\ vram \in 0..CheckMaxVram
    /\ aspect_ratio \in {CalculateScreenRatio(s[1], s[2]) : s \in Screens}
    /\ system_language \in Languages
    /\ mod_lists = <<>>
    /\ profiles = <<>>
    /\ selected_profile = <<>>
    /\ modlist = <<>>
    /\ pc = "call"
    /\ idx = 1
    /\ enabled = <<>>
    /\ disabled = <<>>
    /\ calls = <<>>
    /\ trace = <<>>
    /\ result = None
    /\ config_ini = <<>>
    /\ args = <<>>

CallCheck ==
    /\ pc = "call"
    /\ result' = Some(Check(configurations[1], vram, aspect_ratio, system_language))
    /\ pc' = "returned"
    /\ UNCHANGED <<configurations, mod_lists, vram, aspect_ratio,
                   system_language, profiles, selected_profile, modlist, idx,
                   enabled, disabled, calls, trace,
                   config_ini, args>>

NextCheck == CallCheck

SpecCheck == InitCheck /\ [][NextCheck]_vars

----------------------------------------------------------------------------
(* Claims about the predicates *)

Returned == pc = "returned"

TheRule == configurations[1]

MinHolds(self, v) == IsNone(self.min_vram) \/ Val(self.min_vram) <= v

MaxHolds(self, v) == IsNone(self.max_vram) \/ v < Val(self.max_vram)

\* C1: check_vram(vram) is true exactly when vram is at or above min_vram
\* (if set) and strictly below max_vram (if set); a bound of 0 is a set
\* bound; min 8, max 12 accepts 8 and 11 and rejects 7 and 12.
C1_VramHalfOpen ==
    Returned =>
        /\ Val(result) = (MinHolds(TheRule, vram) /\ MaxHolds(TheRule, vram))
        /\ (TheRule.min_vram = Some(8) /\ TheRule.max_vram = Some(12)) =>
              (Val(result) = (vram \in {8, 9, 10, 11}))
        /\ (TheRule.max_vram = Some(0) /\ vram >= 0) => ~Val(result)
        /\ (TheRule.min_vram = Some(0) /\ vram < 0) => ~Val(result)

C1_Witness ==
    /\ Returned
    /\ TheRule.min_vram = Some(8)
    /\ TheRule.max_vram = Some(12)
    /\ vram = 12
    /\ result = Some(FALSE)

\* the rule's ratio and the environment's ratio text denote the same fraction
SameFraction(ratio, ratio_str) ==
    ratio.x * RatioY(ratio_str) = ratio.y * RatioX(ratio_str)

\* C2: check(vram, ratio, language) is true exactly when the aspect-ratio
\* predicate is absent or equal to the current ratio, the VRAM predicate
\* holds, and the language predicate is absent or equal, letter case
\* included, to the current language; a rule with no predicate matches.
C2_CheckIsConjunction ==
    Returned =>
        /\ Val(result) =
              /\ (IsNone(TheRule.aspect_ratio)
                    \/ SameFraction(Val(TheRule.aspect_ratio), aspect_ratio))
              /\ MinHolds(TheRule, vram) /\ MaxHolds(TheRule, vram)
              /\ (IsNone(TheRule.system_language)
                    \/ Val(TheRule.system_language) = system_language)
        /\ (/\ IsNone(TheRule.aspect_ratio)
            /\ IsNone(TheRule.min_vram)
            /\ IsNone(TheRule.max_vram)
            /\ IsNone(TheRule.system_language)) => Val(result)

C2_Witness ==
    /\ Returned
    /\ TheRule.aspect_ratio = Some([x |-> 8, y |-> 5])
    /\ aspect_ratio = <<"1", "6", ":", "1", "0">>
    /\ TheRule.min_vram = Some(1)
    /\ vram = 1
    /\ TheRule.system_language = Some(en)
    /\ system_language = EN
    /\ result = Some(FALSE)

----------------------------------------------------------------------------
(* SpecRewrite: Profile.modify_modlist_file called twice on one file with  *)
(* the same collections.  trace holds the text each call read.             *)

MaxTextLen == 4

Alphabet == {" ", "+", "-", "*", "a", "b", "\n"}

a == <<"a">>

b == <<"b">>

c == <<"c">>

minus_a == <<"-", "a">>

\* "+a", "-b", "+c", one per line
ExampleText == <<"+", "a", "\n", "-", "b", "\n", "+", "c", "\n">>

\* "  + a b ", an empty line, "*b", "-a" without a final line terminator
PaddedText == <<" ", " ", "+", " ", "a", " ", "b", " ", "\n", "\n", "*", "b", "\n", "-", "a">>

Texts == SeqsUpTo(Alphabet, MaxTextLen) \cup {ExampleText, PaddedText}

EnabledLists == {<<>>, <<a>>, <<b>>, <<a, b>>}

DisabledLists == {<<>>, <<a>>, <<b>>, <<b, minus_a>>}

\* the directory Profile.directory itself
Root == <<>>

InitRewrite ==
    /\ modlist \in {Root :> [exists |-> TRUE, text |-> t] : t \in Texts}
    /\ enabled \in EnabledLists
    /\ disabled \in DisabledLists
    /\ configurations = <<>>
    /\ mod_lists = <<>>
    /\ vram = 0
    /\ aspect_ratio = CalculateScreenRatio(1920, 1080)
    /\ system_language = en
    /\ profiles = <<>>
    /\ selected_profile = <<>>
    /\ pc = "call"
    /\ idx = 1
    /\ calls = <<>>
    /\ trace = <<>>
    /\ result = None
    /\ config_ini = <<>>
    /\ args = <<>>

CallModifyModlistFile ==
    /\ pc \in {"call", "once"}
    /\ modlist' = [modlist EXCEPT ![Root].text = ModifyModlistFile(@, enabled, disabled)]
    /\ trace' = Append(trace, modlist[Root].text)
    /\ calls' = Append(calls, [file |-> Root, enabled |-> enabled,
                               disabled |-> disabled, ok |-> TRUE])
    /\ pc' = IF pc = "call" THEN "once" ELSE "twice"
    /\ UNCHANGED <<configurations, mod_lists, vram, aspect_ratio,
                   system_language, profiles, selected_profile, idx, enabled,
                   disabled, result,
                   config_ini, args>>

NextRewrite == CallModifyModlistFile

SpecRewrite == InitRewrite /\ [][NextRewrite]_vars

----------------------------------------------------------------------------
(* Claims about the editor *)

\* the sign the claim gives an entry
DecidedSign(entry, ens, dis) ==
    IF entry.name \in Range(ens) THEN "+"
    ELSE IF entry.name \in Range(dis) THEN "-"
    ELSE entry.sign

\* the text the claim expects for the text read
DecidedText(text, ens, dis) ==
    LET old == Entries(text)
    IN  Concat([i \in DOMAIN old |->
                   <<DecidedSign(old[i], ens, dis)>> \o old[i].name \o <<"\n">>])

\* C3: every line that survives (stripped length at least 2) is written as
\* '+' and its name if the name is in enabled, else '-' and its name if the
\* name is in disabled, else its own first character and its name; "+a",
\* "-b", "+c" with enabled = [b] and disabled = [] give "+a", "+b", "+c".
C3_SignByNameAlone ==
    pc \in {"once", "twice"} =>
        /\ modlist[Root].text = DecidedText(trace[Len(trace)], enabled, disabled)
        /\ (trace[1] = ExampleText /\ enabled = <<b>> /\ disabled = <<>>) =>
              modlist[Root].text = <<"+", "a", "\n", "+", "b", "\n", "+", "c", "\n">>

C3_Witness ==
    /\ pc = "once"
    /\ trace[1] = PaddedText
    /\ enabled = <<a>>
    /\ disabled = <<b, minus_a>>
    /\ modlist[Root].text =
          <<"+", "a", " ", "b", "\n", "-", "b", "\n", "+", "a", "\n">>

\* C5: a second rewrite with the same collections leaves the file exactly
\* as the first rewrite wrote it.
C5_RewriteIdempotent ==
    pc = "twice" => modlist[Root].text = trace[2]

C5_Witness ==
    /\ pc = "twice"
    /\ trace[1] = PaddedText
    /\ trace[1] # trace[2]
    /\ enabled = <<a, b>>
    /\ disabled = <<b, minus_a>>
    /\ modlist[Root].text =
          <<"+", "a", " ", "b", "\n", "+", "b", "\n", "+", "a", "\n">>

\* the names a mod-list text lists, in file order
Names(text) == [i \in DOMAIN Entries(text) |-> Entries(text)[i].name]

\* C12: the rewrite neither reorders nor invents entries: the names of the
\* text written are, in order, the names of the lines read whose stripped
\* length is at least 2; the shorter lines are dropped, so the text written
\* has one line per such name; a name of enabled or disabled that the text
\* read does not list is not in the text written.
C12_NamesKeptInOrder ==
    pc \in {"once", "twice"} =>
        LET old == trace[Len(trace)]
            new == modlist[Root].text
        IN  /\ Names(new) = Names(old)
            /\ Len(ReadLines(new)) = Len(Names(old))
            /\ \A n \in Range(enabled) \cup Range(disabled) :
                  n \notin Range(Names(old)) => n \notin Range(Names(new))

C12_Witness ==
    /\ pc = "once"
    /\ trace[1] = PaddedText
    /\ Len(ReadLines(trace[1])) = 4
    /\ Names(modlist[Root].text) = <<<<"a", " ", "b">>, b, a>>
    /\ enabled = <<b>>
    /\ disabled = <<b, minus_a>>

----------------------------------------------------------------------------
(* SpecRatio: AspectRatio(x, y) built from two integers, then is_equal    *)
(* called on it with a "W:H" text and with its own str().  trace holds    *)
(* what the two is_equal calls returned.                                  *)

MaxSide == 16

MaxTextSide == 10

\* the "W:H" texts with positive components
RatioTexts ==
    {IntStr(w) \o <<":">> \o IntStr(h) : w \in 1..MaxTextSide, h \in 1..MaxTextSide}

InitRatio ==
    /\ args \in [x : (0 - MaxSide)..MaxSide, y : (0 - MaxSide)..MaxSide,
                 ratio_str : RatioTexts]
    /\ result = None
    /\ pc = "call"
    /\ trace = <<>>
    /\ configurations = <<>>
    /\ mod_lists = <<>>
    /\ vram = 0
    /\ aspect_ratio = <<>>
    /\ system_language = <<>>
    /\ profiles = <<>>
    /\ selected_profile = <<>>
    /\ modlist = <<>>
    /\ idx = 1
    /\ enabled = <<>>
    /\ disabled = <<>>
    /\ calls = <<>>
    /\ config_ini = <<>>

\* AspectRatio(args.x, args.y)
NewAspectRatio ==
    /\ pc = "call"
    /\ IF AspectRatioRaises(args.x, args.y)
       THEN pc' = "raised" /\ result' = result
       ELSE pc' = "new" /\ result' = Some(AspectRatio(args.x, args.y))
    /\ UNCHANGED <<configurations, mod_lists, vram, aspect_ratio,
                   system_language, profiles, selected_profile, modlist, idx,
                   enabled, disabled, calls, trace, config_ini, args>>

\* r.is_equal(args.ratio_str) and r.is_equal(str(r)) on the object built
CallIsEqual ==
    /\ pc = "new"
    /\ LET r == Val(result)
       IN  IF IsEqualRaises(r, args.ratio_str) \/ IsEqualRaises(r, AspectRatioStr(r))
           THEN pc' = "raised" /\ trace' = trace
           ELSE /\ pc' = "compared"
                /\ trace' = <<IsEqual(r, args.ratio_str),
                              IsEqual(r, AspectRatioStr(r))>>
    /\ UNCHANGED <<configurations, mod_lists, vram, aspect_ratio,
                   system_language, profiles, selected_profile, modlist, idx,
                   enabled, disabled, calls, result, config_ini, args>>

NextRatio == NewAspectRatio \/ CallIsEqual

SpecRatio == InitRatio /\ [][NextRatio]_vars

\* C13: every AspectRatio built is in lowest terms and keeps the ratio of
\* its arguments, negative ones included: gcd(|x|, |y|) = 1 for the stored
\* x, y and x_in * y_stored = y_in * x_stored; with x_in = 0 or y_in = 0
\* the construction raises and no object is built.
C13_LowestTerms ==
    /\ ~IsNone(result) =>
          /\ args.x # 0 /\ args.y # 0
          /\ GcdNat(Abs(Val(result).x), Abs(Val(result).y)) = 1
          /\ args.x * Val(result).y = args.y * Val(result).x
    /\ (pc # "call" /\ (args.x = 0 \/ args.y = 0)) =>
          pc = "raised" /\ IsNone(result)

C13_Witness ==
    /\ pc = "new"
    /\ args.x = 0 - 16 /\ args.y = 10
    /\ Val(result) = [x |-> 0 - 8, y |-> 5]

C13_WitnessRaises ==
    pc = "raised" /\ args.x = 0 /\ args.y = 5 /\ IsNone(result)

\* C14: for a ratio built from positive (a, b) and a text "W:H" with
\* positive W and H, is_equal returns true exactly when a * H = b * W
\* (16:10 equals "8:5", 16:9 does not equal "4:3"); every ratio is equal
\* to its own str().
C14_IsEqualCrossProduct ==
    pc = "compared" =>
        /\ trace[2]
        /\ (args.x > 0 /\ args.y > 0) =>
              (trace[1] <=> args.x * RatioY(args.ratio_str)
                              = args.y * RatioX(args.ratio_str))

C14_Witness ==
    /\ pc = "compared"
    /\ args.x = 16 /\ args.y = 10
    /\ args.ratio_str = <<"8", ":", "5">>
    /\ trace = <<TRUE, TRUE>>

C14_WitnessDiffer ==
    /\ pc = "compared"
    /\ args.x = 16 /\ args.y = 9
    /\ args.ratio_str = <<"4", ":", "3">>
    /\ trace = <<FALSE, TRUE>>

----------------------------------------------------------------------------
(* Spec: one run of ProfileAssistant.set_configuration over the loaded     *)
(* rules.  trace holds, for each rule the loop visited, its index, what    *)
(* check returned and the profile pointer the rule found.                  *)

MaxRules == 2

\* GPU.vram of the run; a rule with MaxVram equal to it does not match
EnvVram == 4

pA == <<"A">>

pB == <<"B">>

pX == <<"X">>

G1 == <<"G", "1">>

G2 == <<"G", "2">>

G3 == <<"G", "3">>

\* the groups as load_configurations returns them: G3 has no section
Groups == (G1 :> <<a, b>>) @@ (G2 :> <<b, c, b>>) @@ (G3 :> <<>>)

\* "+a", "-b", "*c"
TextA == <<"+", "a", "\n", "-", "b", "\n", "*", "c", "\n">>

\* "-a", " + b", "-c"
TextB == <<"-", "a", "\n", " ", "+", " ", "b", "\n", "-", "c", "\n">>

NoFile == [exists |-> FALSE, text |-> <<>>]

File(text) == [exists |-> TRUE, text |-> text]

\* EnableMods and DisableMods of a rule section
ModChoices ==
    {<<<<>>, <<>>>>, <<<<G3>>, <<>>>>, <<<<G1>>, <<G1>>>>, <<<<G3>>, <<G2>>>>,
     <<<<G1>>, <<G2>>>>}

\* the rules a rule file can declare; pX names no profile directory
Rules ==
    {Configuration(RuleName, p, m[1], m[2], None, mx, None, None) :
        p \in {None, Some(pA), Some(pB), Some(pX)},
        m \in ModChoices,
        mx \in {None, Some(EnvVram)}}

Init ==
    /\ configurations \in SeqsUpTo(Rules, MaxRules)
    /\ mod_lists = Groups
    /\ vram = EnvVram
    /\ aspect_ratio = CalculateScreenRatio(1920, 1080)
    /\ system_language = en
    /\ profiles = <<pA, pB>>
    /\ selected_profile = ChangeProfile(pA)
    /\ modlist \in {(Root :> NoFile) @@ (pA :> File(TextA)) @@ (pB :> f) :
                       f \in {NoFile, File(TextB)}}
    /\ pc = "loop"
    /\ idx = 1
    /\ enabled = <<>>
    /\ disabled = <<>>
    /\ calls = <<>>
    /\ trace = <<>>
    /\ result = None
    /\ config_ini = <<>>
    /\ args = <<>>

\* the rule the loop is at
Current == configurations[idx]

\* "for c in self.configurations: if c.check(...)" is false: next rule
SkipRule ==
    /\ pc = "loop"
    /\ idx <= Len(configurations)
    /\ ~Check(Current, vram, aspect_ratio, system_language)
    /\ trace' = Append(trace, [rule |-> idx, matched |-> FALSE,
                               selected |-> selected_profile])
    /\ idx' = idx + 1
    /\ UNCHANGED <<configurations, mod_lists, vram, aspect_ratio,
                   system_language, profiles, selected_profile, modlist, pc,
                   enabled, disabled, calls, result,
                   config_ini, args>>

\* "if c.check(...): c.do(profiles, self.mod_lists)"
ApplyRule ==
    /\ pc = "loop"
    /\ idx <= Len(configurations)
    /\ Check(Current, vram, aspect_ratio, system_language)
    /\ Do(Current, profiles, mod_lists)
    /\ trace' = Append(trace, [rule |-> idx, matched |-> TRUE,
                               selected |-> selected_profile])
    /\ idx' = IF pc' = "raised" THEN idx ELSE idx + 1
    /\ UNCHANGED <<configurations, mod_lists, vram, aspect_ratio,
                   system_language, profiles, result,
                   config_ini, args>>

\* the loop has no rule left: set_configuration returns
Return ==
    /\ pc = "loop"
    /\ idx > Len(configurations)
    /\ pc' = "done"
    /\ UNCHANGED <<configurations, mod_lists, vram, aspect_ratio,
                   system_language, profiles, selected_profile, modlist, idx,
                   enabled, disabled, calls, trace, result,
                   config_ini, args>>

Next == SkipRule \/ ApplyRule \/ Return

Spec == Init /\ [][Next]_vars

----------------------------------------------------------------------------
(* Claims about Configuration.do and the run *)

Last(s) == s[Len(s)]

RunEnded == pc \in {"done", "raised"}

Matches(rule) == Check(rule, vram, aspect_ratio, system_language)

\* the names the rule's EnableMods groups list
EnableNames(rule) == Range(Resolve(rule.enable_mods, mod_lists))

\* the names the rule's DisableMods groups list
DisableNames(rule) == Range(Resolve(rule.disable_mods, mod_lists))

\* the rule names a profile that get_profiles() did not return
ProfileUnavailable(rule) ==
    ~IsNone(rule.profile) /\ Val(rule.profile) \notin Range(profiles)

\* the rule names a profile that get_profiles() returned
ProfileAvailable(rule) ==
    ~IsNone(rule.profile) /\ Val(rule.profile) \in Range(profiles)

\* C4: when the enable and disable groups of an applied rule overlap, the
\* disable collection handed to the editor has no name of the enable
\* collection, and every overlapping mod the edited file lists has sign '+'.
C4_EnableWins ==
    calls # <<>> =>
        LET k == Last(calls)
            overlap == EnableNames(k.rule) \cap DisableNames(k.rule)
        IN  /\ Range(k.disabled) \cap Range(k.enabled) = {}
            /\ Range(k.enabled) = EnableNames(k.rule)
            /\ k.ok => \A m \in overlap : SignsOf(modlist[k.file].text, m) \subseteq {"+"}

C4_Witness ==
    /\ calls # <<>>
    /\ Last(calls).ok
    /\ Last(calls).file = pA
    /\ b \in EnableNames(Last(calls).rule) \cap DisableNames(Last(calls).rule)
    /\ Last(calls).disabled = <<c>>
    /\ SignsOf(modlist[pA].text, b) = {"+"}
    /\ SignsOf(modlist[pA].text, c) = {"-"}

\* the rule's final collections, after deduplication and the filter, are
\* both empty
FinalEmpty(rule) ==
    EnableNames(rule) = {} /\ (DisableNames(rule) \ EnableNames(rule)) = {}

\* the rules the run applied so far that had a final collection to hand over
EditingVisits ==
    SelectSeq(trace, LAMBDA t : t.matched /\ ~FinalEmpty(configurations[t.rule]))

\* C10: an applied rule leaves the mod-list file unread and unwritten
\* exactly when its deduplicated enable collection and its deduplicated,
\* filtered disable collection are both empty; every other applied rule
\* invokes the editor exactly once.
C10_RewriteSkippedIffEmpty ==
    /\ Len(calls) = Len(EditingVisits)
    /\ \A i \in 1..Len(calls) : calls[i].rule = configurations[EditingVisits[i].rule]

C10_Witness ==
    /\ Len(trace) = 2
    /\ trace[1].matched
    /\ trace[2].matched
    /\ configurations[1].enable_mods = <<G3>>
    /\ configurations[1].disable_mods = <<>>
    /\ configurations[2].enable_mods = <<G1>>
    /\ configurations[2].disable_mods = <<G1>>
    /\ Len(calls) = 1
    /\ calls[1].disabled = <<>>
    /\ calls[1].ok

\* C8: a matching rule whose profile is set and not available leaves
\* selected_profile as it found it, and its collections still go to the
\* editor, for the mod-list file of the profile that was already active,
\* whose listed mods take the rule's signs.
C8_UnavailableProfileNonFatal ==
    trace # <<>> =>
        LET t == Last(trace)
            r == configurations[t.rule]
        IN  (t.matched /\ ProfileUnavailable(r)) =>
                /\ selected_profile = t.selected
                /\ ~FinalEmpty(r) =>
                      /\ calls # <<>>
                      /\ Last(calls).rule = r
                      /\ Last(calls).file = CurrentProfile(t.selected)
                      /\ Last(calls).ok =>
                            LET text == modlist[Last(calls).file].text
                            IN  /\ \A m \in EnableNames(r) :
                                      SignsOf(text, m) \subseteq {"+"}
                                /\ \A m \in DisableNames(r) \ EnableNames(r) :
                                      SignsOf(text, m) \subseteq {"-"}

C8_Witness ==
    /\ Len(trace) = 1
    /\ trace[1].matched
    /\ configurations[1].profile = Some(pX)
    /\ configurations[1].enable_mods = <<G3>>
    /\ configurations[1].disable_mods = <<G2>>
    /\ selected_profile = ChangeProfile(pA)
    /\ Len(calls) = 1
    /\ calls[1].file = pA
    /\ modlist[pA].text = <<"+", "a", "\n", "-", "b", "\n", "-", "c", "\n">>

\* C9: when the editor call of an applied rule fails, only that rule's
\* apply step is given up: the run ends only after every later rule was
\* evaluated too.
C9_FailureAbortsOnlyThatRule ==
    (RunEnded /\ \E i \in 1..Len(calls) : ~calls[i].ok) =>
        Len(trace) = Len(configurations)

\* the calls that decided mod m in the file of directory dir
Deciders(dir, m) ==
    {i \in 1..Len(calls) :
        /\ calls[i].file = dir
        /\ calls[i].ok
        /\ m \in Range(calls[i].enabled) \cup Range(calls[i].disabled)}

Max(S) == CHOOSE x \in S : \A y \in S : y <= x

\* each listed mod some applied rule decided has the sign the latest such
\* rule gave it
Layered ==
    \A dir \in DOMAIN modlist :
        \A i \in DOMAIN Entries(modlist[dir].text) :
            LET e == Entries(modlist[dir].text)[i]
                d == Deciders(dir, e.name)
            IN  d # {} =>
                   e.sign = IF e.name \in Range(calls[Max(d)].enabled) THEN "+" ELSE "-"

\* the rules visited so far are the first rules of the list, in order, each
\* once, and applied exactly when its check is true
VisitedInOrder ==
    /\ Len(trace) <= Len(configurations)
    /\ \A i \in 1..Len(trace) :
          /\ trace[i].rule = i
          /\ trace[i].matched = Matches(configurations[i])

\* C6: a run evaluates every loaded rule once, in list order, applies
\* exactly the rules whose check is true, and a listed mod ends with the
\* sign of the latest applied rule that decided it.
C6_EveryRuleInOrderLaterWins ==
    RunEnded =>
        /\ VisitedInOrder
        /\ Len(trace) = Len(configurations)
        /\ Layered

\* what holds of every run, aborted or not: the visited rules are a prefix
\* of the list in order, and the signs are layered
C6_PrefixInOrderLayered == VisitedInOrder /\ Layered

\* the matching rules that name an available profile
Setters ==
    {i \in 1..Len(configurations) :
        Matches(configurations[i]) /\ ProfileAvailable(configurations[i])}

\* the pointer the run started with
InitialSelected == IF trace = <<>> THEN selected_profile ELSE trace[1].selected

\* C7: after the run selected_profile names the profile of the last
\* matching rule whose profile is available, and is as before the run if
\* there is no such rule.
C7_LastAvailableProfileWins ==
    RunEnded =>
        selected_profile =
            IF Setters = {} THEN InitialSelected
            ELSE ChangeProfile(Val(configurations[Max(Setters)].profile))

\* the same with the rules the run applied in place of the matching rules
C7_LastAppliedProfileWins ==
    LET applied == {i \in 1..Len(trace) :
                       trace[i].matched /\ ProfileAvailable(configurations[i])}
    IN  selected_profile =
            IF applied = {} THEN InitialSelected
            ELSE ChangeProfile(Val(configurations[Max(applied)].profile))

----------------------------------------------------------------------------
(* The rule file (base/ini.py) as get_ini(path, True) parses it: the       *)
(* sections in file order, each with its "key = value" entries in file     *)
(* order; the lines of an entry are its value and its continuation lines,  *)
(* each stripped.  Keys stand for their lower-cased spelling.              *)

IniFile(sections) == [exists |-> TRUE, sections |-> sections]

\* os.path.exists(Ini.plugin_ini_path) is false
NoIni == [exists |-> FALSE, sections |-> <<>>]

Section(name, options) == [name |-> name, options |-> options]

Option(key, lines) == [key |-> key, lines |-> lines]

General == <<"G", "e", "n", "e", "r", "a", "l">>

\* the section configparser never counts as a section
DefaultSect == <<"D", "E", "F", "A", "U", "L", "T">>

\* config.has_section(section)
HasSection(config, section) ==
    /\ section # DefaultSect
    /\ \E i \in DOMAIN config.sections : config.sections[i].name = section

\* strict=False: the entries of every section of that name, in file order
OptionsOf(config, section) ==
    LET same == SelectSeq(config.sections, LAMBDA sec : sec.name = section)
    IN  Concat([i \in DOMAIN same |-> same[i].options])

\* ConfigParserMultiValues.__setitem__: the lines of every entry of that
\* key, a repeated key extending the list of the earlier one
ValueLines(config, section, key) ==
    LET same == SelectSeq(OptionsOf(config, section), LAMBDA o : o.key = key)
    IN  Concat([i \in DOMAIN same |-> same[i].lines])

HasOption(config, section, key) ==
    /\ HasSection(config, section)
    /\ \E i \in DOMAIN OptionsOf(config, section) :
          OptionsOf(config, section)[i].key = key

\* sep.join(parts)
RECURSIVE Join(_, _)
Join(parts, sep) ==
    IF parts = <<>> THEN <<>>
    ELSE IF Len(parts) = 1 THEN parts[1]
    ELSE parts[1] \o <<sep>> \o Join(Tail(parts), sep)

\* config.get(section, key, fallback=fallback): the lines joined by line
\* feeds and right-stripped
ConfigGet(config, section, key, fallback) ==
    IF HasOption(config, section, key)
    THEN RStrip(Join(ValueLines(config, section, key), "\n"))
    ELSE fallback

\* the list converter reading only the first line of the value
GetListFirstLine(config, section, key, fallback) ==
    IF HasOption(config, section, key)
    THEN <<Head(Split(ConfigGet(config, section, key, <<>>), "\n"))>>
    ELSE fallback

\* config.getlist(section, key, fallback=fallback): value.split("\n")
GetList(config, section, key, fallback) ==
    IF HasOption(config, section, key)
    THEN Split(ConfigGet(config, section, key, <<>>), "\n")
    ELSE fallback

\* int_or_none
IntOrNone(value) == IF IsInt(value) THEN Some(IntVal(value)) ELSE None

\* "None if value == "" else value"
EmptyToNone(value) == IF value = <<>> THEN None ELSE Some(value)

\* "[item for item in items if item and item.strip()]"
NonBlank(items) == SelectSeq(items, LAMBDA item : item # <<>> /\ Strip(item) # <<>>)

----------------------------------------------------------------------------
(* Configuration.load_configurations *)

\* every section of the file, in file order
EverySection(config) == [i \in DOMAIN config.sections |-> config.sections[i].name]

\* configuration_sections: config.get("General", "Settings", "").split(",")
ListedSections(config) == Split(ConfigGet(config, General, "Settings", <<>>), ",")

\* the listed sections of the file, in the order the file has them
LoadedSectionsFileOrder(config) ==
    SelectSeq(EverySection(config),
              LAMBDA section : section \in Range(ListedSections(config)))

\* the sections the loop builds a rule for: "if config.has_section(section)"
LoadedSections(config) ==
    SelectSeq(ListedSections(config), LAMBDA section : HasSection(config, section))

\* the text handed to AspectRatio.from_string for a section
RatioOf(config, section) ==
    EmptyToNone(ConfigGet(config, section, "AspectRatio", <<>>))

\* the Configuration appended for a section
LoadRule(config, section) ==
    Configuration(section,
        EmptyToNone(ConfigGet(config, section, "Profile", <<>>)),
        NonBlank(Split(ConfigGet(config, section, "EnableMods", <<>>), ",")),
        NonBlank(Split(ConfigGet(config, section, "DisableMods", <<>>), ",")),
        IntOrNone(ConfigGet(config, section, "MinVram", <<>>)),
        IntOrNone(ConfigGet(config, section, "MaxVram", <<>>)),
        FromString(RatioOf(config, section)),
        EmptyToNone(ConfigGet(config, section, "SystemLanguage", <<>>)))

\* load_configurations raises: from_string raises for a section of the loop
LoadRaises(config) ==
    \E section \in Range(LoadedSections(config)) :
        FromStringRaises(RatioOf(config, section))

\* settings, where load_configurations returns
LoadedRules(config) ==
    LET sections == LoadedSections(config)
    IN  [i \in DOMAIN sections |-> LoadRule(config, sections[i])]

\* the keys registered only for the groups that have a section
GroupKeysWithSection(config, rules) ==
    {g \in UNION {Range(rules[i].enable_mods) \cup Range(rules[i].disable_mods) :
                     i \in DOMAIN rules} : HasSection(config, g)}

\* "if m not in mod_lists: mod_lists[m] = []" over both lists of every rule
GroupKeys(config, rules) ==
    UNION {Range(rules[i].enable_mods) \cup Range(rules[i].disable_mods) :
              i \in DOMAIN rules}

\* mod_lists, where load_configurations returns
LoadedModLists(config) ==
    [g \in GroupKeys(config, LoadedRules(config)) |->
        IF HasSection(config, g) THEN GetList(config, g, "Mod", <<>>) ELSE <<>>]

----------------------------------------------------------------------------
(* SpecLoad: ProfileAssistant.init: load_configurations on a rule file,    *)
(* then set_configuration over what it returned.                           *)

\* how many names General/Settings lists at most
MaxListed == 2

\* the MaxVram of the rule sections; GPU.vram is it or one below it
LoadMaxVram == 4

sL == <<"L">>

sH == <<"H">>

\* a name General/Settings may list that no section has
sN == <<"N">>

\* the values of EnableMods of section L: G3 has no section
EnableTexts == {G1, Join(<<G1, <<>>, G3>>, ","), Join(<<G3, G2>>, ",")}

\* the values of AspectRatio of section L (<<>>: no such key)
RatioValues ==
    {<<>>, <<"1", "6", ":", "9">>, <<"1", "6", "x", "9">>, <<"0", ":", "9">>}

KeyIf(key, value) == IF value = <<>> THEN <<>> ELSE <<Option(key, <<value>>)>>

\* section L: a VRAM range, EnableMods and possibly AspectRatio
LowSections ==
    {Section(sL, <<Option("MinVram", <<<<"0">>>>)>>
                 \o KeyIf("MaxVram", max)
                 \o <<Option("EnableMods", <<e>>)>>
                 \o KeyIf("AspectRatio", r)) :
        max \in {<<>>, IntStr(LoadMaxVram)}, e \in EnableTexts, r \in RatioValues}

\* section H: possibly a profile, DisableMods or EnableMods, no predicate
HighSections ==
    {Section(sH, KeyIf("Profile", p) \o <<Option(k, <<G1>>)>>) :
        p \in {<<>>, pB}, k \in {"EnableMods", "DisableMods"}}

\* section G1 lists a and b as one value with a continuation line; section
\* G2 lists b, c, b under a repeated key
GroupSections ==
    <<Section(G1, <<Option("Mod", <<a, b>>)>>),
      Section(G2, <<Option("Mod", <<b>>), Option("Mod", <<c>>),
                    Option("Mod", <<b>>)>>)>>

GeneralSection(listed) ==
    Section(General, <<Option("Settings", <<Join(listed, ",")>>)>>)

IniFiles ==
    {NoIni} \cup
    {IniFile(<<GeneralSection(listed)>> \o rules \o GroupSections) :
        listed \in SeqsUpTo({sL, sH, sN}, MaxListed) \ {<<>>},
        rules \in UNION {{<<l, h>>, <<h, l>>} : l \in LowSections, h \in HighSections}}

\* the mod-list files before the run
InitialFiles == (Root :> NoFile) @@ (pA :> File(TextA)) @@ (pB :> File(TextB))

InitLoad ==
    /\ config_ini \in IniFiles
    /\ vram \in {LoadMaxVram - 1, LoadMaxVram}
    /\ configurations = <<>>
    /\ mod_lists = <<>>
    /\ aspect_ratio = CalculateScreenRatio(1920, 1080)
    /\ system_language = en
    /\ profiles = <<pA, pB>>
    /\ selected_profile = ChangeProfile(pA)
    /\ modlist = InitialFiles
    /\ pc = "load"
    /\ idx = 1
    /\ enabled = <<>>
    /\ disabled = <<>>
    /\ calls = <<>>
    /\ trace = <<>>
    /\ result = None
    /\ args = <<>>

\* "self.configurations, self.mod_lists = Configuration.load_configurations()"
LoadConfigurations ==
    /\ pc = "load"
    /\ IF ~config_ini.exists
       THEN /\ configurations' = <<>>
            /\ mod_lists' = <<>>
            /\ pc' = "loop"
       ELSE IF LoadRaises(config_ini)
       THEN /\ pc' = "load_raised"
            /\ UNCHANGED <<configurations, mod_lists>>
       ELSE /\ configurations' = LoadedRules(config_ini)
            /\ mod_lists' = LoadedModLists(config_ini)
            /\ pc' = "loop"
    /\ UNCHANGED <<vram, aspect_ratio, system_language, profiles,
                   selected_profile, modlist, idx, enabled, disabled, calls,
                   trace, result, config_ini, args>>

NextLoad == LoadConfigurations \/ SkipRule \/ ApplyRule \/ Return

SpecLoad == InitLoad /\ [][NextLoad]_vars

\* load_configurations has returned
Loaded == pc \in {"loop", "done", "raised"}

----------------------------------------------------------------------------
(* Claims about the rule file and the whole run *)

\* the mod names the file lists under Mod in the section of a group
ModsInFile(group) == Range(ValueLines(config_ini, group, "Mod"))

\* one rule was loaded: it has a VRAM range and EnableMods naming a group
\* that has a section, and no profile and no DisableMods
OneRangeRule ==
    /\ Len(configurations) = 1
    /\ ~IsNone(configurations[1].min_vram)
    /\ ~IsNone(configurations[1].max_vram)
    /\ IsNone(configurations[1].profile)
    /\ configurations[1].disable_mods = <<>>
    /\ \E g \in Range(configurations[1].enable_mods) : HasSection(config_ini, g)

\* C11: with a rule file whose one active rule has a VRAM range and an
\* EnableMods group whose section lists mod names, after the run in an
\* environment the rule matches every mod of the group that the active
\* profile's file lists has sign '+' and every other entry has the sign it
\* had; in an environment the rule does not match (VRAM equal to MaxVram)
\* no file changes.
C11_EndToEnd ==
    (RunEnded /\ OneRangeRule) =>
        LET r == configurations[1]
            file == GetModlistFile(selected_profile)
            old == Entries(InitialFiles[file].text)
            new == Entries(modlist[file].text)
            mods == UNION {ModsInFile(g) : g \in Range(r.enable_mods)}
        IN  /\ Matches(r) =>
                /\ pc = "done"
                /\ Len(new) = Len(old)
                /\ \A i \in DOMAIN old :
                      /\ new[i].name = old[i].name
                      /\ new[i].sign = IF old[i].name \in mods THEN "+"
                                       ELSE old[i].sign
                /\ \A f \in DOMAIN modlist \ {file} : modlist[f] = InitialFiles[f]
            /\ ~Matches(r) => modlist = InitialFiles
            /\ vram >= Val(r.max_vram) => modlist = InitialFiles

C11_Witness ==
    /\ pc = "done"
    /\ ListedSections(config_ini) = <<sL>>
    /\ ConfigGet(config_ini, sL, "EnableMods", <<>>) = G1
    /\ ConfigGet(config_ini, sL, "AspectRatio", <<>>) = <<>>
    /\ OneRangeRule
    /\ vram = LoadMaxVram - 1
    /\ mod_lists = (G1 :> <<a, b>>)
    /\ modlist[pA].text = <<"+", "a", "\n", "+", "b", "\n", "*", "c", "\n">>

C11_WitnessNoMatch ==
    /\ pc = "done"
    /\ ListedSections(config_ini) = <<sL>>
    /\ OneRangeRule
    /\ vram = Val(configurations[1].max_vram)
    /\ trace = <<[rule |-> 1, matched |-> FALSE, selected |-> ChangeProfile(pA)]>>
    /\ modlist = InitialFiles

\* C15: from_string never raises to its caller: a rule section whose
\* AspectRatio value cannot be turned into a valid ratio is loaded with the
\* predicate absent, and loading completes.
C15_FromStringNeverRaises ==
    /\ pc # "load_raised"
    /\ Loaded =>
          \A i \in DOMAIN configurations :
              LET text == RatioOf(config_ini, configurations[i].name)
              IN  (~IsNone(text) /\ (RatioParseFails(Val(text))
                                       \/ RatioX(Val(text)) = 0
                                       \/ RatioY(Val(text)) = 0))
                  => IsNone(configurations[i].aspect_ratio)

\* what holds of the code: a text that is not two integers around one colon
\* is loaded as an absent predicate, and the load raises only for a text
\* that parses to a zero component.
C15_OnlyZeroComponentRaises ==
    /\ Loaded =>
          \A i \in DOMAIN configurations :
              LET text == RatioOf(config_ini, configurations[i].name)
              IN  (~IsNone(text) /\ RatioParseFails(Val(text)))
                  => IsNone(configurations[i].aspect_ratio)
    /\ pc = "load_raised" =>
          \E section \in Range(ListedSections(config_ini)) :
              LET text == ConfigGet(config_ini, section, "AspectRatio", <<>>)
              IN  /\ HasSection(config_ini, section)
                  /\ ~RatioParseFails(text)
                  /\ (RatioX(text) = 0 \/ RatioY(text) = 0)

\* the names the file lists under General/Settings, in the order listed
NamesInSettings ==
    Split(Join(ValueLines(config_ini, General, "Settings"), "\n"), ",")

\* the file has a section of that name
InFile(name) == \E i \in DOMAIN config_ini.sections : config_ini.sections[i].name = name

\* the groups a rule references in either list
Referenced(rule) == Range(rule.enable_mods) \cup Range(rule.disable_mods)

\* C16: after load_configurations every group name in EnableMods or
\* DisableMods of a loaded rule is a key of the returned mapping, a
\* referenced group without a section maps to the empty list, and so do,
\* given the rules and the mapping of one load, resolves every reference.
C16_EveryReferencedGroupIsKey ==
    Loaded =>
        \A i \in DOMAIN configurations :
            /\ \A g \in Referenced(configurations[i]) :
                  /\ g \in DOMAIN mod_lists
                  /\ ~InFile(g) => mod_lists[g] = <<>>
            /\ Resolve(configurations[i].enable_mods, mod_lists) =
                  Concat([k \in DOMAIN configurations[i].enable_mods |->
                             mod_lists[configurations[i].enable_mods[k]]])

C16_Witness ==
    /\ pc = "loop"
    /\ Len(configurations) = 1
    /\ configurations[1].enable_mods = <<G1, G3>>
    /\ ~InFile(G3)
    /\ DOMAIN mod_lists = {G1, G3}
    /\ mod_lists[G3] = <<>>
    /\ mod_lists[G1] = <<a, b>>

\* C17: a rule is returned for a name only if General/Settings lists the
\* name and the file has a section of that name; a listed name without a
\* section is skipped and does not fail the load; a section that is not
\* listed never becomes a rule, though it may supply a group.
C17_ListedAndPresent ==
    /\ Loaded =>
          /\ \A i \in DOMAIN configurations :
                /\ configurations[i].name \in Range(NamesInSettings)
                /\ InFile(configurations[i].name)
          /\ \A name \in Range(NamesInSettings) :
                InFile(name) =>
                    \E i \in DOMAIN configurations : configurations[i].name = name
    /\ pc = "load_raised" =>
          \E name \in Range(NamesInSettings) :
              /\ InFile(name)
              /\ LET parts == Split(Join(ValueLines(config_ini, name, "AspectRatio"), "\n"), ":")
                 IN  Len(parts) = 2 /\ (IntVal(parts[1]) = 0 \/ IntVal(parts[2]) = 0)

C17_Witness ==
    /\ pc = "loop"
    /\ NamesInSettings = <<sN, sL>>
    /\ ~InFile(sN)
    /\ InFile(sH)
    /\ Len(configurations) = 1
    /\ configurations[1].name = sL
    /\ configurations[1].enable_mods = <<G3, G2>>
    /\ mod_lists = (G3 :> <<>>) @@ (G2 :> <<b, c, b>>)

\* where the file has the (first) section of that name
SectionPos(name) ==
    CHOOSE i \in DOMAIN config_ini.sections :
        /\ config_ini.sections[i].name = name
        /\ \A j \in 1..(i - 1) : config_ini.sections[j].name # name

\* C18 as the specification states it: of two loaded rules, the one whose
\* section comes first in the rule file comes first in the list returned.
C18_SectionOrder ==
    Loaded =>
        \A i, j \in DOMAIN configurations :
            SectionPos(configurations[i].name) < SectionPos(configurations[j].name)
                => i < j

\* C18: the loaded rules are ordered as General/Settings lists their names
\* (the listed names that have a section, in the order listed, a name
\* listed twice giving two rules), and the run visits them in that order.
C18_SettingsOrder ==
    Loaded =>
        /\ [i \in DOMAIN configurations |-> configurations[i].name] =
              SelectSeq(IF config_ini.exists THEN NamesInSettings ELSE <<>>, InFile)
        /\ \A k \in DOMAIN trace : trace[k].rule = k

C18_Witness ==
    /\ pc = "done"
    /\ NamesInSettings = <<sH, sL>>
    /\ SectionPos(sL) < SectionPos(sH)
    /\ Len(configurations) = 2
    /\ configurations[1].name = sH
    /\ configurations[2].name = sL
    /\ Len(trace) = 2

----------------------------------------------------------------------------
(* SpecDo: one call of Configuration.do with a mapping that need not have  *)
(* every group the rule references.                                        *)

\* how many groups each of EnableMods and DisableMods references at most
MaxRefs == 2

\* a group name no mapping of SpecDo has
G4 == <<"G", "4">>

\* the mappings do is given
DoMappings ==
    {(G1 :> <<a, b>>) @@ (G2 :> <<b, c, b>>), (G1 :> <<a, b>>), (G2 :> <<c>>)}

DoRules ==
    {Configuration(RuleName, None, e, d, None, None, None, None) :
        e \in SeqsUpTo({G1, G2, G4}, MaxRefs), d \in SeqsUpTo({G1, G2, G4}, MaxRefs)}

InitDo ==
    /\ configurations \in {<<r>> : r \in DoRules}
    /\ mod_lists \in DoMappings
    /\ vram = 0
    /\ aspect_ratio = CalculateScreenRatio(1920, 1080)
    /\ system_language = en
    /\ profiles = <<pA, pB>>
    /\ selected_profile = ChangeProfile(pA)
    /\ modlist = InitialFiles
    /\ pc = "loop"
    /\ idx = 1
    /\ enabled = <<>>
    /\ disabled = <<>>
    /\ calls = <<>>
    /\ trace = <<>>
    /\ result = None
    /\ config_ini = <<>>
    /\ args = <<>>

\* c.do(profiles, mod_lists) on the one rule
CallDo ==
    /\ pc = "loop"
    /\ idx = 1
    /\ Do(configurations[1], profiles, mod_lists)
    /\ idx' = 2
    /\ UNCHANGED <<configurations, mod_lists, vram, aspect_ratio,
                   system_language, profiles, trace, result, config_ini, args>>

NextDo == CallDo

SpecDo == InitDo /\ [][NextDo]_vars

\* the mod names of the referenced groups that the mapping has
NamesOfPresent(groups) ==
    UNION {Range(mod_lists[g]) : g \in Range(groups) \cap DOMAIN mod_lists}

\* C19: when the mapping lacks a group the rule references, only that
\* reference is skipped: the mods of every other referenced group, of both
\* lists, before or after the missing one, are collected and applied to
\* the mod-list file.
C19_OnlyMissingReferenceSkipped ==
    idx = 2 =>
        LET r == configurations[1]
            ens == NamesOfPresent(r.enable_mods)
            dis == NamesOfPresent(r.disable_mods) \ ens
            old == Entries(InitialFiles[pA].text)
            new == Entries(modlist[pA].text)
        IN  /\ Range(enabled) = ens
            /\ Range(disabled) = dis
            /\ Len(new) = Len(old)
            /\ \A i \in DOMAIN old :
                  /\ new[i].name = old[i].name
                  /\ new[i].sign = IF old[i].name \in ens THEN "+"
                                   ELSE IF old[i].name \in dis THEN "-"
                                   ELSE old[i].sign

C19_Witness ==
    /\ idx = 2
    /\ configurations[1].enable_mods = <<G4, G1>>
    /\ configurations[1].disable_mods = <<G2, G4>>
    /\ DOMAIN mod_lists = {G1, G2}
    /\ Range(enabled) = {a, b}
    /\ disabled = <<c>>
    /\ Len(calls) = 1
    /\ modlist[pA].text = <<"+", "a", "\n", "+", "b", "\n", "-", "c", "\n">>

----------------------------------------------------------------------------
(* SpecSwitch: one call of Configuration.do on a rule that may name a      *)
(* profile, among profiles one of which has ")" in its name.               *)

\* the profile directory "B)"
pC == <<"B", ")">>

SwitchFiles ==
    (Root :> NoFile) @@ (pA :> File(TextA)) @@ (pB :> File(TextB))
        @@ (pC :> File(TextA))

SwitchRules ==
    {Configuration(RuleName, p, m[1], m[2], None, None, None, None) :
        p \in {None, Some(pA), Some(pB), Some(pC), Some(pX)}, m \in ModChoices}

InitSwitch ==
    /\ configurations \in {<<r>> : r \in SwitchRules}
    /\ mod_lists = Groups
    /\ vram = 0
    /\ aspect_ratio = CalculateScreenRatio(1920, 1080)
    /\ system_language = en
    /\ profiles = <<pA, pB, pC>>
    /\ selected_profile \in {ChangeProfile(pA), ChangeProfile(pB), ChangeProfile(pC)}
    /\ modlist = SwitchFiles
    /\ pc = "loop"
    /\ idx = 1
    /\ enabled = <<>>
    /\ disabled = <<>>
    /\ calls = <<>>
    /\ trace = <<>>
    /\ result = None
    /\ config_ini = <<>>
    /\ args = <<>>

SpecSwitch == InitSwitch /\ [][NextDo]_vars

\* C20: within one do the switch comes before the rewrite and the rewrite
\* targets the file of the profile active at that moment: when the rule's
\* profile is available, the only mod-list file modified is the one of the
\* newly selected profile; the files of the previously active profile and of
\* every other profile are as they were.
C20_RewriteTargetsNewProfile ==
    (idx = 2 /\ ProfileAvailable(configurations[1])) =>
        LET new == Val(configurations[1].profile)
        IN  /\ selected_profile = ChangeProfile(new)
            /\ \A k \in DOMAIN calls : calls[k].file = new /\ calls[k].ok
            /\ \A f \in DOMAIN modlist \ {new} : modlist[f] = SwitchFiles[f]

\* what holds of the code: the rewrite is made after the switch, on the
\* directory the new pointer decodes to, and on no other file; for a name
\* without ")" and without the wrapper's opening that directory is the new
\* profile's.
C20_RewriteTargetsDecodedPointer ==
    (idx = 2 /\ ProfileAvailable(configurations[1])) =>
        LET new == Val(configurations[1].profile)
            dir == CurrentProfile(ChangeProfile(new))
        IN  /\ selected_profile = ChangeProfile(new)
            /\ \A k \in DOMAIN calls : calls[k].file = dir
            /\ \A f \in DOMAIN modlist \ {dir} : modlist[f] = SwitchFiles[f]
            /\ new \in {pA, pB} => dir = new

----------------------------------------------------------------------------
(* SpecPointer: Profile.change_profile(name), then Profile.current_profile *)
(* reading the pointer back.  The host ini stores the wrapped value as it  *)
(* is: it starts with "@" and ends with ")", so the stripping of values    *)
(* on reading leaves it alone.                                             *)

MaxNameLen == 3

NameAlphabet == {"A", "B", "(", ")"}

\* the profile names: short texts, and two that contain the wrapper's opening
ProfileNames ==
    (SeqsUpTo(NameAlphabet, MaxNameLen) \ {<<>>})
        \cup {ByteArrayOpen \o <<"A">>, <<"A">> \o ByteArrayOpen \o <<"B">>}

InitPointer ==
    /\ args \in [name : ProfileNames]
    /\ selected_profile \in {<<>>, ChangeProfile(pA)}
    /\ result = None
    /\ pc = "call"
    /\ trace = <<>>
    /\ configurations = <<>>
    /\ mod_lists = <<>>
    /\ vram = 0
    /\ aspect_ratio = <<>>
    /\ system_language = <<>>
    /\ profiles = <<>>
    /\ modlist = <<>>
    /\ idx = 1
    /\ enabled = <<>>
    /\ disabled = <<>>
    /\ calls = <<>>
    /\ config_ini = <<>>

\* Profile.change_profile(args.name)
CallChangeProfile ==
    /\ pc = "call"
    /\ selected_profile' = ChangeProfile(args.name)
    /\ pc' = "changed"
    /\ UNCHANGED <<configurations, mod_lists, vram, aspect_ratio,
                   system_language, profiles, modlist, idx, enabled, disabled,
                   calls, trace, result, config_ini, args>>

\* Profile.current_profile(): the directory name under Profile.directory
CallCurrentProfile ==
    /\ pc = "changed"
    /\ result' = Some(CurrentProfile(selected_profile))
    /\ pc' = "decoded"
    /\ UNCHANGED <<configurations, mod_lists, vram, aspect_ratio,
                   system_language, profiles, selected_profile, modlist, idx,
                   enabled, disabled, calls, trace, config_ini, args>>

NextPointer == CallChangeProfile \/ CallCurrentProfile

SpecPointer == InitPointer /\ [][NextPointer]_vars

\* the text occurs in s
Contains(s, sub) ==
    \E i \in 1..(Len(s) - Len(sub) + 1) : SubSeq(s, i, i + Len(sub) - 1) = sub

\* C21: for every profile name n, after change_profile(n) the name decoded
\* by current_profile() is exactly n, names containing ")" or
\* "@ByteArray(" included.
C21_PointerRoundTrip ==
    pc = "decoded" => Val(result) = args.name

\* what holds of the code: the round trip returns the name with every ")"
\* and every "@ByteArray(" deleted, so it is exact for the names that have
\* neither.
C21_RoundTripOfPlainNames ==
    pc = "decoded" =>
        /\ Val(result) = Remove(Remove(args.name, ByteArrayOpen), <<")">>)
        /\ (~Contains(args.name, <<")">>) /\ ~Contains(args.name, ByteArrayOpen))
              => Val(result) = args.name

----------------------------------------------------------------------------
(* Claims about runs in which rules do not match *)

\* the VRAM of the run is at or above the rule's MaxVram
AboveRange(rule) == ~IsNone(rule.max_vram) /\ vram >= Val(rule.max_vram)

\* the pointer before the run
PointerBefore == ChangeProfile(pA)

\* C22: a run in which no loaded rule matches the environment, the empty
\* rule list of a missing rule file included, changes nothing: the pointer
\* selected_profile is as before and no mod-list file is opened; a rule
\* whose check is false contributes no editor call and no switch.
C22_NoMatchNoEffect ==
    /\ (RunEnded /\ \A i \in DOMAIN configurations : AboveRange(configurations[i])) =>
          /\ pc = "done"
          /\ selected_profile = PointerBefore
          /\ modlist = InitialFiles
          /\ calls = <<>>
          /\ \A k \in DOMAIN trace : ~trace[k].matched
    /\ \A k \in DOMAIN calls : ~AboveRange(calls[k].rule)
    /\ selected_profile # PointerBefore =>
          \E i \in DOMAIN configurations :
              /\ ~AboveRange(configurations[i])
              /\ ~IsNone(configurations[i].profile)
              /\ selected_profile = ChangeProfile(Val(configurations[i].profile))

C22_Witness ==
    /\ pc = "done"
    /\ config_ini.exists
    /\ Len(configurations) = 2
    /\ \A i \in DOMAIN configurations : AboveRange(configurations[i])
    /\ trace = <<[rule |-> 1, matched |-> FALSE, selected |-> PointerBefore],
                 [rule |-> 2, matched |-> FALSE, selected |-> PointerBefore]>>
    /\ modlist = InitialFiles

C22_WitnessMissingFile ==
    /\ pc = "done"
    /\ ~config_ini.exists
    /\ configurations = <<>>
    /\ trace = <<>>
    /\ calls = <<>>
    /\ modlist = InitialFiles

----------------------------------------------------------------------------
(* SpecOrder: two rules applied in one run to two profiles whose mod-list  *)
(* files start equal; the second rule names other groups than the first,   *)
(* listing mods in another order and with other repetitions.               *)

\* how many groups EnableMods of a rule of SpecOrder references at most
MaxOrderRefs == 2

G5 == <<"G", "5">>

G6 == <<"G", "6">>

\* G5 lists the mods of G1 and G6 those of G2, reordered and repeated
OrderGroups ==
    (G1 :> <<a, b>>) @@ (G2 :> <<b, c, b>>) @@ (G5 :> <<b, a, a>>) @@ (G6 :> <<c, b>>)

OrderRules(profile, groups) ==
    {Configuration(RuleName, Some(profile), e, d, None, None, None, None) :
        e \in SeqsUpTo(groups, MaxOrderRefs), d \in SeqsUpTo(groups, 1)}

InitOrder ==
    /\ configurations \in {<<r1, r2>> : r1 \in OrderRules(pA, {G1, G2}),
                                        r2 \in OrderRules(pB, {G5, G6})}
    /\ mod_lists = OrderGroups
    /\ vram = 0
    /\ aspect_ratio = CalculateScreenRatio(1920, 1080)
    /\ system_language = en
    /\ profiles = <<pA, pB>>
    /\ selected_profile = ChangeProfile(pA)
    /\ modlist = (Root :> NoFile) @@ (pA :> File(TextA)) @@ (pB :> File(TextA))
    /\ pc = "loop"
    /\ idx = 1
    /\ enabled = <<>>
    /\ disabled = <<>>
    /\ calls = <<>>
    /\ trace = <<>>
    /\ result = None
    /\ config_ini = <<>>
    /\ args = <<>>

NextOrder == ApplyRule \/ Return

SpecOrder == InitOrder /\ [][NextOrder]_vars

\* C23: the effect of applying a rule depends only on the sets of resolved
\* mod names: two rules whose groups resolve to the same set of enabled
\* names and the same set of disabled names, whatever the order of the
\* groups and the repetitions within or across them, turn equal mod-list
\* files into byte-identical files.
C23_OrderAndMultiplicityIrrelevant ==
    (pc = "done"
        /\ NamesOfPresent(configurations[1].enable_mods)
             = NamesOfPresent(configurations[2].enable_mods)
        /\ NamesOfPresent(configurations[1].disable_mods)
             = NamesOfPresent(configurations[2].disable_mods))
    => modlist[pA].text = modlist[pB].text

C23_Witness ==
    /\ pc = "done"
    /\ configurations[1].enable_mods = <<G1, G2>>
    /\ configurations[2].enable_mods = <<G6, G5>>
    /\ configurations[1].disable_mods = <<G1>>
    /\ configurations[2].disable_mods = <<G5>>
    /\ calls[1].enabled # calls[2].enabled
    /\ modlist[pA].text = <<"+", "a", "\n", "+", "b", "\n", "+", "c", "\n">>
    /\ modlist[pB].text = modlist[pA].text

C23_WitnessDisable ==
    /\ pc = "done"
    /\ configurations[1].enable_mods = <<G1, G1>>
    /\ configurations[2].enable_mods = <<G5>>
    /\ configurations[1].disable_mods = <<G2>>
    /\ configurations[2].disable_mods = <<G6>>
    /\ modlist[pA].text = <<"+", "a", "\n", "+", "b", "\n", "-", "c", "\n">>
    /\ modlist[pB].text = modlist[pA].text

====
